---- MODULE Spec2Model ----
(***************************************************************************)
(* Model of quantum_rankings/build_quantum_dataset_venues.py: the venue-   *)
(* first harvesting pipeline (build_dataset_from_venues, harvest_dblp_     *)
(* venue, the OpenAlex resolution cache, main), the paginating iterator    *)
(* iter_works_for_source, and the threshold / top-K post-processing.       *)
(*                                                                         *)
(* Specifications sharing the module:                                      *)
(*   Spec         the pipeline run by main()                               *)
(*   ResolveSpec  the DBLP bridge's DOI / title resolution and its cache   *)
(*   IterSpec     one invocation of iter_works_for_source                  *)
(*   IterLiveSpec the same, the consumer draining the generator            *)
(*   FilterSpec   the post-processing of build_dataset_from_venues applied *)
(*                twice to one aggregate, with one threshold raised        *)
(* Python's None / "" / {} / [] are all falsy where the code tests them    *)
(* with `if not x`; an absent string is modelled as "" and an absent work  *)
(* ({}) as the empty sequence, a present work w as <<w>>.                  *)
(***************************************************************************)
EXTENDS Integers, Sequences, FiniteSets, TLC

\* ------------------------------------------------------------------------
\* Bounds of the model
\* ------------------------------------------------------------------------
\* works yielded by the iterator for one source id
MaxYield == 1
\* records returned by the secondary index for one venue
MaxInfos == 1
\* venues in the configuration
MaxVenues == 2

\* ------------------------------------------------------------------------
\* Program constants
\* ------------------------------------------------------------------------
\* --min-year / --max-year defaults
MinYear == 2005
MaxYear == 2025

\* ------------------------------------------------------------------------
\* Strings: the conversions the code applies, on the titles and codes of the
\* model's universe
\* ------------------------------------------------------------------------
\* str.lower()
Lower(s) ==
    CASE s = "Quantum A" -> "quantum a"
      [] s = "Quantum A " -> "quantum a "
      [] s = "QIP 2020" -> "qip 2020"
      [] s = "Quantum Inf Proc" -> "quantum inf proc"
      [] OTHER -> s

\* str.upper() on country codes
Upper(s) ==
    CASE s = "us" -> "US"
      [] s = "Us" -> "US"
      [] s = "de" -> "DE"
      [] s = "xx" -> "XX"
      [] OTHER -> s

\* str.strip()
Strip(s) ==
    CASE s = "Quantum A " -> "Quantum A"
      [] s = "quantum a " -> "quantum a"
      [] s = " " -> ""
      [] OTHER -> s

\* any(kw in text for kw in QUANTUM_KEYWORDS) on a lowercased text: the texts
\* of the universe that contain a curated keyword ("quantum")
HasKeyword(text) == text \in {"quantum a", "quantum a "}

\* COUNTRY_TO_REGION.get(code): no default, None for a code not in the table
CountryToRegionNoDefault(code) ==
    CASE code = "US" -> "North America"
      [] code = "DE" -> "Europe"
      [] OTHER -> "None"

\* COUNTRY_TO_REGION.get(code, "Other"), on the codes of the universe
CountryToRegion(code) ==
    CASE code = "US" -> "North America"
      [] code = "DE" -> "Europe"
      [] OTHER -> "Other"

region_from_country_code(code) ==
    IF code = "" THEN "Other" ELSE CountryToRegion(Upper(code))

\* ------------------------------------------------------------------------
\* The universe of service records
\* ------------------------------------------------------------------------
Inst1 == [id |-> "i1", display_name |-> "Alpha U", country_code |-> "us"]
Inst2 == [id |-> "i2", display_name |-> "Beta U", country_code |-> "DE"]
InstNoId == [id |-> "", display_name |-> "Gamma U", country_code |-> ""]

Auth(aid, name, insts) ==
    [author_id |-> aid, display_name |-> name, institutions |-> insts]

\* OpenAlex works.  absKw: the abstract contains a curated keyword.
Work(id, title, dname, hasYear, year, auths, absKw) ==
    [id |-> id, title |-> title, display_name |-> dname, hasYear |-> hasYear,
     publication_year |-> year, authorships |-> auths, absKw |-> absKw]

Works ==
    { Work("w1", "Quantum A", "Quantum A", TRUE, MinYear,
           <<Auth("a1", "Ann", <<Inst1>>), Auth("a2", "Bob", <<Inst1, Inst2>>)>>, FALSE),
      \* another record of the same paper under a second id
      Work("w2", "Quantum A", "Quantum A", TRUE, MinYear,
           <<Auth("a1", "Ann", <<Inst1>>)>>, FALSE),
      \* keyword only in the abstract; one institution listed twice
      Work("w3", "classical b", "classical b", TRUE, MinYear + 1,
           <<Auth("a2", "Bob", <<Inst2, Inst2>>)>>, TRUE),
      \* no id, no title, authorships without author id / institutions
      Work("", "", "", TRUE, MinYear,
           <<Auth("", "Cy", <<Inst1>>), Auth("a1", "Ann", <<>>),
             Auth("a1", "Ann", <<InstNoId>>)>>, FALSE),
      \* no publication year
      Work("w5", "Quantum A", "Quantum A", FALSE, 0,
           <<Auth("a1", "Ann", <<Inst1>>)>>, FALSE),
      \* outside the year range
      Work("w6", "Quantum A", "Quantum A", TRUE, MaxYear + 1,
           <<Auth("a1", "Ann", <<Inst1>>)>>, FALSE),
      \* no institution on any authorship
      Work("w7", "Quantum A", "Quantum A", TRUE, MinYear,
           <<Auth("a1", "Ann", <<>>), Auth("a2", "Bob", <<>>)>>, FALSE) }

WorkIds == {w.id : w \in Works} \ {""}

WorkById(id) == CHOOSE w \in Works : w.id = id

\* the works the DOI endpoint and the title search answer with
DoiWorks == {WorkById("w1"), WorkById("w3"), WorkById("w5"), WorkById("w7")}

TitleWorks == {WorkById("w2"), WorkById("w6")}

\* DBLP 'info' records that passed dblp_search_conference_papers
Info(title, y, doi, ee) == [title |-> title, year_int |-> y, doi |-> doi, ee |-> ee]

DblpInfos ==
    { Info("Quantum A", MinYear, "d1", ""),
      Info("quantum a ", MinYear, "https://doi.org/d1", ""),
      Info("classical b", MinYear + 1, "", "https://doi.org/d2"),
      Info("Quantum A", MinYear, "", "https://example.org/x") }

Dois == {"d1", "d2"}

\* ------------------------------------------------------------------------
\* The resolution cache and the two resolvers
\* ------------------------------------------------------------------------
EmptyFn == [x \in {} |-> x]

\* _slim_openalex_work: keeps id, title-or-display_name, display_name, year and
\* the authorships; the abstract is not kept
_slim_openalex_work(work) ==
    [id |-> work.id,
     title |-> IF work.title # "" THEN work.title ELSE work.display_name,
     display_name |-> work.display_name,
     hasYear |-> work.hasYear,
     publication_year |-> work.publication_year,
     authorships |-> work.authorships,
     absKw |-> FALSE]

\* "doi.org/" in ee, and ee.split("doi.org/", 1)[-1]
AfterDoiOrg(ee) ==
    CASE ee = "https://doi.org/d1" -> "d1"
      [] ee = "https://doi.org/d2" -> "d2"
      [] OTHER -> ""

\* removal of a leading https://doi.org/ or http://doi.org/
StripDoiPrefix(doi) ==
    CASE doi = "https://doi.org/d1" -> "d1"
      [] doi = "https://doi.org/d2" -> "d2"
      [] OTHER -> doi

_extract_doi_from_dblp_info(info) ==
    LET doi == IF info.doi = "" THEN AfterDoiOrg(info.ee) ELSE info.doi
    IN  IF doi = "" THEN "" ELSE StripDoiPrefix(Strip(doi))

\* What the network answers to GET /works/doi:<doi>
DoiAnswers ==
    {[kind |-> "ok", work |-> w] : w \in DoiWorks}
      \cup {[kind |-> k, work |-> WorkById("w1")] :
              k \in {"404", "http", "error", "empty"}}

\* a lookup that never consults the cache
DoiCacheNeverHit(c, doi) == FALSE

\* the cache lookup of fetch_openalex_work_by_doi
DoiCacheHit(c, doi) == doi \in DOMAIN c.doi

\* a lookup that stores nothing
PutDoiNever(c, doi, ans) == c

\* a store that keeps only the newest DOI
PutDoiEvicting(c, doi, ans) ==
    IF ans.kind = "ok"
    THEN [c EXCEPT !.doi = (doi :> _slim_openalex_work(ans.work))]
    ELSE c

\* the outcomes fetch_openalex_work_by_doi stores in the cache
PutDoi(c, doi, ans) ==
    IF ans.kind = "ok"
    THEN [c EXCEPT !.doi = (doi :> _slim_openalex_work(ans.work)) @@ @]
    ELSE c

\* fetch_openalex_work_by_doi(doi) with the cache c and the network's answer
\* ans: the work returned (<<>> for {}), the cache afterwards, and whether a
\* request was issued
fetch_openalex_work_by_doi(c, doi, ans) ==
    IF doi = "" THEN [work |-> <<>>, cache |-> c, net |-> FALSE]
    ELSE IF DoiCacheHit(c, doi)
    THEN [work |-> <<c.doi[doi]>>, cache |-> c, net |-> FALSE]
    ELSE LET c2 == PutDoi(c, doi, ans)
         IN  [work |-> IF ans.kind = "ok" THEN <<_slim_openalex_work(ans.work)>> ELSE <<>>,
              cache |-> c2, net |-> TRUE]

\* What the network answers to the title search: an error, or up to
\* MaxResults works
MaxResults == 2

TitleAnswers ==
    {[kind |-> "error", results |-> <<>>]}
      \cup {[kind |-> "ok", results |-> r] :
              r \in UNION {[1..n -> TitleWorks] : n \in 0..MaxResults}}

Abs(n) == IF n < 0 THEN -n ELSE n

\* the candidate search_openalex_work_by_title prefers: the first one whose
\* year is within one year of the hint, else the first result
RECURSIVE FirstInWindow(_, _)
FirstInWindow(results, year_hint) ==
    IF results = <<>> THEN <<>>
    ELSE LET w == Head(results)
         IN  IF w.hasYear /\ Abs(w.publication_year - year_hint) <= 1
             THEN <<w>>
             ELSE FirstInWindow(Tail(results), year_hint)

ChooseCandidate(results, year_hint) ==
    LET inWin == FirstInWindow(results, year_hint)
    IN  IF inWin # <<>> THEN inWin[1] ELSE results[1]

\* the cache key: lowercased title, "|", the year hint
TitleKey(title, year_hint) == <<Lower(title), year_hint>>

search_openalex_work_by_title(c, rawTitle, year_hint, ans) ==
    LET title == Strip(rawTitle)
        key == TitleKey(title, year_hint)
    IN  IF title = "" THEN [work |-> <<>>, cache |-> c, net |-> FALSE, key |-> key]
        ELSE IF key \in DOMAIN c.title
        THEN [work |-> <<c.title[key]>>, cache |-> c, net |-> FALSE, key |-> key]
        ELSE IF ans.kind # "ok" \/ ans.results = <<>>
        THEN [work |-> <<>>, cache |-> c, net |-> TRUE, key |-> key]
        ELSE LET slim == _slim_openalex_work(ChooseCandidate(ans.results, year_hint))
             IN  [work |-> <<slim>>,
                  cache |-> [c EXCEPT !.title = (key :> slim) @@ @],
                  net |-> TRUE, key |-> key]

\* ------------------------------------------------------------------------
\* Relevance filter
\* ------------------------------------------------------------------------
_title_looks_quantum(title) ==
    LET t == Lower(title) IN IF t = "" THEN FALSE ELSE HasKeyword(t)

is_quantum_paper(work, require_keywords) ==
    IF ~require_keywords THEN TRUE
    ELSE LET title == Lower(IF work.title # "" THEN work.title ELSE work.display_name)
         IN  HasKeyword(title) \/ work.absKw

\* ------------------------------------------------------------------------
\* Aggregator
\* ------------------------------------------------------------------------
\* an append that keeps only the first publication of an entry
AppendPubFirstOnly(pubs, pub) == IF pubs # <<>> THEN pubs ELSE <<pub>>

\* the direct path appends a publication unless the same (year, venue, title)
\* is already in the list
AppendPubDirect(pubs, pub) ==
    IF \E k \in 1..Len(pubs) : /\ pubs[k].year = pub.year
                               /\ pubs[k].venue = pub.venue
                               /\ pubs[k].title = pub.title
    THEN pubs
    ELSE Append(pubs, pub)

\* the DBLP bridge appends the publication
AppendPubDblp(pubs, pub) == Append(pubs, pub)

AppendPub(path, pubs, pub) ==
    IF path = "direct" THEN AppendPubDirect(pubs, pub) ELSE AppendPubDblp(pubs, pub)

\* one institution of one authorship: register the institution, register or
\* fetch the (author, institution) entry, append the publication
AttachInst(agg, inst, author_id, author_name, pub, path) ==
    IF inst.id = "" THEN agg
    ELSE LET insts2 ==
                 IF inst.id \in DOMAIN agg.institutions THEN agg.institutions
                 ELSE agg.institutions @@
                        (inst.id :>
                           [name |-> IF inst.display_name # "" THEN inst.display_name
                                     ELSE "Unknown institution",
                            region |-> region_from_country_code(inst.country_code)])
             key == <<author_id, inst.id>>
             ai1 == IF key \in DOMAIN agg.author_inst THEN agg.author_inst
                    ELSE agg.author_inst @@
                           (key :> [name |-> author_name, institution_id |-> inst.id,
                                    publications |-> <<>>])
         IN  [institutions |-> insts2,
              author_inst |->
                  [ai1 EXCEPT ![key].publications = AppendPub(path, @, pub)]]

RECURSIVE AttachInsts(_, _, _, _, _, _)
AttachInsts(agg, insts, author_id, author_name, pub, path) ==
    IF insts = <<>> THEN agg
    ELSE AttachInsts(AttachInst(agg, Head(insts), author_id, author_name, pub, path),
                     Tail(insts), author_id, author_name, pub, path)

\* a test that lets an authorship without author id through
SkipAuthorshipNoInsts(auth) == auth.institutions = <<>>

\* lines 1257 and 1094: the authorship has no institutions or no author id
SkipAuthorship(auth) == auth.institutions = <<>> \/ auth.author_id = ""

\* the loop over the authorships of one work
RECURSIVE AttachAuthorships(_, _, _, _)
AttachAuthorships(agg, auths, pub, path) ==
    IF auths = <<>> THEN agg
    ELSE LET auth == Head(auths)
             author_name == IF auth.display_name # "" THEN auth.display_name ELSE "Unknown"
             next == IF SkipAuthorship(auth) THEN agg
                     ELSE AttachInsts(agg, auth.institutions, auth.author_id,
                                      author_name, pub, path)
         IN  AttachAuthorships(next, Tail(auths), pub, path)

\* the work-id deduplication shared by both paths: whether the work is
\* skipped, and the set afterwards
\* a loop body that lets every work through
SeenSkipNever(seen, work_id) == FALSE

SeenSkip(seen, work_id) == work_id # "" /\ work_id \in seen

\* a loop body that never records the id
SeenAddNever(seen, work_id) == seen

SeenAdd(seen, work_id) == IF work_id # "" THEN seen \cup {work_id} ELSE seen

\* ------------------------------------------------------------------------
\* Post-processing: thresholds, top-K cap, emitter
\* ------------------------------------------------------------------------
Restrict(f, S) == [x \in S |-> f[x]]

RECURSIVE SumOver(_, _)
SumOver(f, S) ==
    IF S = {} THEN 0
    ELSE LET x == CHOOSE y \in S : TRUE IN f[x] + SumOver(f, S \ {x})

\* a filter that keeps the entries at or under the threshold
FilterAuthorsBelow(ai, min_papers_per_author) ==
    Restrict(ai, {k \in DOMAIN ai : Len(ai[k].publications) <= min_papers_per_author})

\* entries with at least min_papers_per_author publications
FilterAuthors(ai, min_papers_per_author) ==
    Restrict(ai, {k \in DOMAIN ai : Len(ai[k].publications) >= min_papers_per_author})

\* inst_total_pubs: institution id -> summed publication count of its entries
InstTotalPubs(ai) ==
    [i \in {k[2] : k \in DOMAIN ai} |->
        SumOver([k \in DOMAIN ai |-> Len(ai[k].publications)],
                {k \in DOMAIN ai : k[2] = i})]

\* a filter that keeps the institutions at or under the threshold
KeepBelowMin(tot, min_papers_per_institution) ==
    {i \in DOMAIN tot : tot[i] <= min_papers_per_institution}

\* keep_insts after the minimum-total filter (0 disables it)
KeepByMin(tot, min_papers_per_institution) ==
    IF min_papers_per_institution > 0
    THEN {i \in DOMAIN tot : tot[i] >= min_papers_per_institution}
    ELSE DOMAIN tot

\* max_institutions: <<>> for None, <<k>> for the cap k
NoCap == <<>>

\* the orders in which iterating the set keep_insts can give its elements
IterationOrders(S) ==
    {o \in [1..Cardinality(S) -> S] : \A a, b \in DOMAIN o : a # b => o[a] # o[b]}

\* a sort that would put the institution with the smaller total first
MoreFirstReversed(tot, i, j) == tot[i] < tot[j]

\* sorted(..., key=total, reverse=True) puts i before j
MoreFirst(tot, i, j) == tot[i] > tot[j]

\* insertion of i into a sorted list, after the elements it does not precede
RECURSIVE InsertInst(_, _, _)
InsertInst(sorted, i, tot) ==
    IF sorted = <<>> THEN <<i>>
    ELSE IF MoreFirst(tot, i, Head(sorted)) THEN <<i>> \o sorted
    ELSE <<Head(sorted)>> \o InsertInst(Tail(sorted), i, tot)

\* sorted(keep_insts, key=total, reverse=True) for one iteration order of
\* the set: stable, institutions with equal totals stay in iteration order
RECURSIVE SortInsts(_, _)
SortInsts(order, tot) ==
    IF order = <<>> THEN <<>>
    ELSE InsertInst(SortInsts(SubSeq(order, 1, Len(order) - 1), tot),
                    order[Len(order)], tot)

\* keep_insts after the top-K cap (lines 1312-1320).  The iteration order of
\* a set is not fixed by the language, so each order is a possible outcome.
TopKChoices(keep, tot, max_institutions) ==
    IF max_institutions = NoCap \/ Cardinality(keep) <= max_institutions[1]
    THEN {keep}
    ELSE {LET sorted_insts == SortInsts(order, tot)
          IN  {sorted_insts[n] : n \in 1..max_institutions[1]} :
            order \in IterationOrders(keep)}

\* a filter that leaves the entries of dropped institutions in place
PostFilterKeepEntries(ai, insts, min_a, min_i, max_institutions) ==
    LET ai1 == FilterAuthors(ai, min_a)
        tot == InstTotalPubs(ai1)
    IN  { [author_inst |-> ai1, institutions |-> Restrict(insts, DOMAIN insts \cap keep)] :
          keep \in TopKChoices(KeepByMin(tot, min_i), tot, max_institutions) }

\* a filter that leaves every registered institution in the map
PostFilterKeepInsts(ai, insts, min_a, min_i, max_institutions) ==
    LET ai1 == FilterAuthors(ai, min_a)
        tot == InstTotalPubs(ai1)
    IN  { [author_inst |-> Restrict(ai1, {k \in DOMAIN ai1 : k[2] \in keep}),
           institutions |-> insts] :
          keep \in TopKChoices(KeepByMin(tot, min_i), tot, max_institutions) }

\* the possible (author_inst, institutions) pairs after lines 1288-1332
PostFilter(ai, insts, min_a, min_i, max_institutions) ==
    LET ai1 == FilterAuthors(ai, min_a)
        tot == InstTotalPubs(ai1)
        keep0 == KeepByMin(tot, min_i)
    IN  { [author_inst |-> Restrict(ai1, {k \in DOMAIN ai1 : k[2] \in keep}),
           institutions |-> Restrict(insts, DOMAIN insts \cap keep)] :
          keep \in TopKChoices(keep0, tot, max_institutions) }

\* the order of Python's string comparison on the names, codes and titles of
\* the universe
StrRank(s) ==
    CASE s = "(untitled)" -> 0
      [] s = "Alpha U" -> 1
      [] s = "Beta U" -> 2
      [] s = "FOCS" -> 3
      [] s = "Gamma U" -> 4
      [] s = "PRL" -> 5
      [] s = "PRX" -> 6
      [] s = "QIP" -> 7
      [] s = "Quantum A" -> 8
      [] s = "TQC" -> 9
      [] s = "Unknown institution" -> 10
      [] s = "classical b" -> 11
      [] OTHER -> 12

\* a comparison that puts later years first
PubLessLaterFirst(p, q) ==
    \/ p.year > q.year
    \/ p.year = q.year /\ StrRank(p.venue) < StrRank(q.venue)
    \/ p.year = q.year /\ p.venue = q.venue /\ StrRank(p.title) < StrRank(q.title)

\* p before q under the key (p["year"], p["venue"], p["title"]) of line 1357
PubLess(p, q) ==
    \/ p.year < q.year
    \/ p.year = q.year /\ StrRank(p.venue) < StrRank(q.venue)
    \/ p.year = q.year /\ p.venue = q.venue /\ StrRank(p.title) < StrRank(q.title)

\* insertion of p into a sorted list, after the elements not greater than it
RECURSIVE InsertPub(_, _)
InsertPub(sorted, p) ==
    IF sorted = <<>> THEN <<p>>
    ELSE IF PubLess(p, Head(sorted)) THEN <<p>> \o sorted
    ELSE <<Head(sorted)>> \o InsertPub(Tail(sorted), p)

\* sorted(publications, key=(year, venue, title)): stable
RECURSIVE SortPubs(_)
SortPubs(pubs) ==
    IF pubs = <<>> THEN <<>>
    ELSE InsertPub(SortPubs(SubSeq(pubs, 1, Len(pubs) - 1)), pubs[Len(pubs)])

\* the orders sorted(institutions.items(), key=name) can give: ascending by
\* name; equal names keep the dict's insertion order, which the model of the
\* dict as a function does not record, so any order among them
InstOrders(insts) ==
    LET n == Cardinality(DOMAIN insts)
    IN  {o \in [1..n -> DOMAIN insts] :
           /\ \A a, b \in 1..n : a # b => o[a] # o[b]
           /\ \A a, b \in 1..n :
                a < b => StrRank(insts[o[a]].name) <= StrRank(insts[o[b]].name)}

\* position of x in the order o
IndexOf(o, x) == CHOOSE k \in 1..Len(o) : o[k] = x

\* lines 1338-1365: institutions_out[k] is the entry of key inst(k-1);
\* authors_out is given per (author, institution) entry: its record in the
\* authors list, institution being the number of its inst key
Emit(venues, filtered, order) ==
    [venues |-> venues,
     institutions |->
        [k \in 1..Len(order) |->
            [name |-> filtered.institutions[order[k]].name,
             region |-> filtered.institutions[order[k]].region]],
     authors |->
        LET ai == filtered.author_inst
            keys == {k \in DOMAIN ai : k[2] \in DOMAIN filtered.institutions}
        IN  [k \in keys |->
               [name |-> ai[k].name,
                institution |-> IndexOf(order, k[2]) - 1,
                publications |-> SortPubs(ai[k].publications)]]]

\* ------------------------------------------------------------------------
\* Venue configuration and source search
\* ------------------------------------------------------------------------
Venue(code, dblp, ids, search, kw) ==
    [code |-> code, name |-> code, dblp_venue |-> dblp, source_ids |-> ids,
     search |-> search, require_keywords |-> kw]

VenueChoices ==
    { Venue("FOCS", "FOCS", <<>>, "", TRUE),
      Venue("TQC", "TQC", <<"s1">>, "", FALSE),
      Venue("PRX", "", <<"s1", "s2">>, "", FALSE),
      Venue("PRL", "", <<"s1">>, "qip", TRUE),
      Venue("QIP", "", <<>>, "qip", FALSE),
      Venue("BAD", "", <<>>, "", FALSE) }

\* /sources?search=... candidates
Source3 == [id |-> "s3", display_name |-> "QIP 2020"]
Source4 == [id |-> "s4", display_name |-> "Quantum Inf Proc"]

SourceAnswers ==
    {[kind |-> "error", results |-> <<>>]}
      \cup {[kind |-> "ok", results |-> r] :
              r \in {<<>>, <<Source3>>, <<Source4>>, <<Source4, Source3>>}}

\* all(tok in name for tok in search.lower().split()), on the universe
AllTokensIn(search, name) == search = "qip" /\ name = "qip 2020"

\* a selection that takes every candidate, whatever its name
MatchingIdsAll(search, results) == [n \in 1..Len(results) |-> results[n].id]

\* lines 628-633
RECURSIVE MatchingIds(_, _)
MatchingIds(search, results) ==
    IF results = <<>> THEN <<>>
    ELSE (IF AllTokensIn(search, Lower(Head(results).display_name))
          THEN <<Head(results).id>> ELSE <<>>)
         \o MatchingIds(search, Tail(results))

find_source_ids_for_venue(search, ans) ==
    IF ans.kind # "ok" THEN <<>> ELSE MatchingIds(search, ans.results)


\* ------------------------------------------------------------------------
\* The loop bodies
\* ------------------------------------------------------------------------
OrElse(a, b) == IF a # "" THEN a ELSE b

\* a loop body that records the id only of a work it aggregates
ProcessDirectAddLate(seen, agg, work, v) ==
    IF SeenSkip(seen, work.id)
    THEN [seen |-> seen, agg |-> agg, aggregated |-> FALSE]
    ELSE IF ~work.hasYear \/ ~is_quantum_paper(work, v.require_keywords)
         THEN [seen |-> seen, agg |-> agg, aggregated |-> FALSE]
         ELSE LET title == OrElse(Strip(OrElse(work.title, work.display_name)),
                                  "(untitled)")
                  pub == [year |-> work.publication_year, venue |-> v.code,
                          title |-> title]
              IN  [seen |-> SeenAdd(seen, work.id),
                   agg |-> AttachAuthorships(agg, work.authorships, pub, "direct"),
                   aggregated |-> TRUE]

\* lines 1235-1286: the body of the loop over the works of one source
ProcessDirect(seen, agg, work, v) ==
    IF SeenSkip(seen, work.id)
    THEN [seen |-> seen, agg |-> agg, aggregated |-> FALSE]
    ELSE LET seen2 == SeenAdd(seen, work.id)
         IN  IF ~work.hasYear \/ ~is_quantum_paper(work, v.require_keywords)
             THEN [seen |-> seen2, agg |-> agg, aggregated |-> FALSE]
             ELSE LET title == OrElse(Strip(OrElse(work.title, work.display_name)),
                                      "(untitled)")
                      pub == [year |-> work.publication_year, venue |-> v.code,
                              title |-> title]
                  IN  [seen |-> seen2,
                       agg |-> AttachAuthorships(agg, work.authorships, pub, "direct"),
                       aggregated |-> TRUE]

\* lines 1066-1114: what harvest_dblp_venue does with a resolved work
ProcessDblp(seen, agg, work, info, v) ==
    IF SeenSkip(seen, work.id)
    THEN [seen |-> seen, agg |-> agg, aggregated |-> FALSE]
    ELSE LET seen2 == SeenAdd(seen, work.id)
             year == IF work.hasYear /\ work.publication_year # 0
                     THEN work.publication_year ELSE info.year_int
         IN  IF \/ year < MinYear
                \/ year > MaxYear
                \/ ~is_quantum_paper(work, v.require_keywords)
             THEN [seen |-> seen2, agg |-> agg, aggregated |-> FALSE]
             ELSE LET title == OrElse(Strip(OrElse(OrElse(work.title, work.display_name),
                                                   info.title)),
                                      "(untitled)")
                      pub == [year |-> year, venue |-> v.code, title |-> title]
                  IN  [seen |-> seen2,
                       agg |-> AttachAuthorships(agg, work.authorships, pub, "dblp"),
                       aggregated |-> TRUE]

NoLookup == [called |-> FALSE, key |-> "", work |-> <<>>, net |-> FALSE]

NoTitleLookup == [called |-> FALSE, key |-> <<"", 0>>, work |-> <<>>, net |-> FALSE]

\* a bridge that searches by title whatever the DOI lookup gave
TitleSearchAlways(work) == TRUE

\* line 1060: `if not work`, after the DOI lookup, if one was made
NeedsTitleSearch(work) == work = <<>>

\* lines 1046-1064: prefilter and resolution of one DBLP record.  skip: the
\* record is dropped before the aggregation; doi, title: the lookups made
ResolveDblp(c, info, require_keywords, doiAns, titleAns) ==
    IF require_keywords /\ ~_title_looks_quantum(info.title)
    THEN [skip |-> TRUE, work |-> <<>>, cache |-> c, doi |-> NoLookup,
          title |-> NoTitleLookup]
    ELSE LET doi == _extract_doi_from_dblp_info(info)
             r1 == fetch_openalex_work_by_doi(c, doi, doiAns)
             l1 == IF doi = "" THEN NoLookup
                   ELSE [called |-> TRUE, key |-> doi, work |-> r1.work, net |-> r1.net]
         IN  IF ~NeedsTitleSearch(r1.work)
             THEN [skip |-> FALSE, work |-> r1.work, cache |-> r1.cache, doi |-> l1,
                   title |-> NoTitleLookup]
             ELSE LET r2 == search_openalex_work_by_title(r1.cache, info.title,
                                                          info.year_int, titleAns)
                      l2 == [called |-> TRUE, key |-> r2.key, work |-> r2.work,
                             net |-> r2.net]
                  IN  [skip |-> r2.work = <<>>, work |-> r2.work, cache |-> r2.cache,
                       doi |-> l1, title |-> l2]

\* the answers that can matter to ResolveDblp: no title answer is read when
\* the DOI lookup gives a work
AnswerPairs(c, info, require_keywords) ==
    {p \in DoiAnswers \X TitleAnswers :
        \/ ResolveDblp(c, info, require_keywords, p[1], p[2]).title.net
        \/ p[2] = [kind |-> "error", results |-> <<>>]}

Bump(f, x) == [f EXCEPT ![x] = @ + 1]

\* ------------------------------------------------------------------------
\* iter_works_for_source
\* ------------------------------------------------------------------------
\* the OpenAlex ceiling on enumerable results and the default per_page
ResultCap == 10000
PerPage == 200

\* years beyond MinYear a range can reach, and the largest max_pages tried
MaxSpan == 2
MaxPagesArg == 2

Years == MinYear..(MinYear + MaxSpan)

NoPageCap == <<>>

PageCaps == {NoPageCap} \cup {<<n>> : n \in 0..MaxPagesArg}

\* works a source has in one year: none, a little under and over half the
\* ceiling (two such years make exactly the ceiling), and over the ceiling
YearCounts == {0, (ResultCap \div 2) - 100, (ResultCap \div 2) + 100, ResultCap + 1}

Min2(a, b) == IF a <= b THEN a ELSE b

Max2(a, b) == IF a >= b THEN a ELSE b

\* a page limit that ignores per_page and max_pages
NoApiPageLimit(max_pages) == ResultCap

\* lines 678-680
max_pages_by_api(max_pages) ==
    IF max_pages # NoPageCap
    THEN Min2(ResultCap \div PerPage, max_pages[1])
    ELSE ResultCap \div PerPage

\* line 711
pages_from_count(total) == (total + PerPage - 1) \div PerPage

\* lines 709-715; total is <<>> when meta.count is missing or not an int
effective_page_limit(max_pages, total) ==
    IF total # <<>>
    THEN Min2(max_pages_by_api(max_pages), pages_from_count(total[1]))
    ELSE max_pages_by_api(max_pages)

\* an iterator that never splits a range
NeverBisect(total, y0, y1) == FALSE

\* line 719
ShouldBisect(total, y0, y1) == total # <<>> /\ total[1] > ResultCap /\ y0 < y1

\* line 720
Mid(y0, y1) == (y0 + y1) \div 2

NoYears == [y \in Years |-> 0]

\* a consistent service: the works of the source with a publication date in
\* [y0, y1], listed year by year
RECURSIVE CountIn(_, _, _)
CountIn(counts, y0, y1) ==
    IF y0 > y1 THEN 0 ELSE counts[y1] + CountIn(counts, y0, y1 - 1)

\* works of each year on page p of the listing of [y0, y1]
PageOf(counts, y0, y1, p) ==
    LET total == CountIn(counts, y0, y1)
        lo == (p - 1) * PerPage
        hi == Min2(p * PerPage, total)
    IN  [y \in Years |->
            IF y0 <= y /\ y <= y1
            THEN LET off == CountIn(counts, y0, y - 1)
                 IN  Max2(0, Min2(hi, off + counts[y]) - Max2(lo, off))
            ELSE 0]

\* works of each year on pages 1..p of the listing of [y0, y1]
RECURSIVE PagesUpTo(_, _, _, _)
PagesUpTo(counts, y0, y1, p) ==
    IF p = 0
    THEN NoYears
    ELSE LET before == PagesUpTo(counts, y0, y1, p - 1)
             this == PageOf(counts, y0, y1, p)
         IN  [y \in Years |-> before[y] + this[y]]

\* what requesting the pages of [y0, y1] one after the other returns, the
\* service refusing pages past the ceiling
DirectPaging(counts, y0, y1) ==
    PagesUpTo(counts, y0, y1,
              Min2(ResultCap \div PerPage, pages_from_count(CountIn(counts, y0, y1))))

\* answers to a request for page p of [y0, y1]: [total, n, by] with n the
\* number of results and by their years.  A service that is not consistent
\* answers any total (missing, small, over the ceiling) with an empty
\* or a full page, whose works' years are not followed.
PageAnswers(svc, y0, y1, p) ==
    IF svc.consistent
    THEN LET by == PageOf(svc.counts, y0, y1, p)
         IN  {[total |-> <<CountIn(svc.counts, y0, y1)>>,
               n |-> CountIn(by, MinYear, MinYear + MaxSpan),
               by |-> by]}
    ELSE {[total |-> t, n |-> n, by |-> NoYears] :
            t \in {<<>>, <<PerPage + 1>>, <<ResultCap + 1>>},
            n \in {0, PerPage}}

\* ------------------------------------------------------------------------
\* State
\* ------------------------------------------------------------------------
VARIABLES
    \* main / build_dataset_from_venues
    pc,             \* where the run is
    vcfg,           \* the venue being processed
    vi,             \* venues of the configuration taken so far
    source_ids,     \* source ids of the current venue
    si,             \* index of the source id being iterated
    nYield,         \* works the iterator yielded for the current source id
    nInfos,         \* DBLP records of the current venue processed so far
    seen_work_ids,
    institutions,   \* inst id -> [name, region]
    author_inst,    \* <<author id, inst id>> -> [name, institution_id, publications]
    venues_out,
    lastSources,    \* <<>> or <<the /sources answer read for the current venue>>
    cache,          \* _openalex_cache: [doi, title]
    diskCache,      \* openalex_cache.json: NoFile or <<[data, upto]>>
    tmpFile,        \* openalex_cache.tmp, likewise
    dataset,        \* <<>> until build_dataset_from_venues returns <<dataset>>
    written,        \* the JSON dataset was written
    aggCount,       \* work id -> times a work with that id was aggregated
    arrivals,       \* work id -> times a work with that id reached a loop body
    \* the bridge's resolution step observed on its own (ResolveSpec)
    nResolved,      \* records resolved so far
    netDoi,         \* doi -> network requests issued for it
    netTitle,       \* title key -> network requests issued for it
    lastDoi,        \* the DOI lookup of the last step, if it made one
    lastTitle,      \* the title search of the last step, if it made one
    \* iter_works_for_source observed on its own (IterSpec)
    it_args,        \* [start_year, end_year, max_pages]
    service,        \* how OpenAlex answers: [consistent, counts]
    it_pc,          \* "idle", "probe", "page", "done" or "raised"
    it_range,       \* <<y0, y1>> of the running _iter_year_range call
    it_stack,       \* right halves whose call is still to be made
    it_total,       \* meta.count of the probe: <<>> if missing or not an int
    it_limit,       \* effective_page_limit of the running call
    it_page,        \* page of the running call
    yielded,        \* year -> works of that year yielded (consistent service)
    warnings,       \* warnings printed: [kind, range]
    over_cap,       \* single-year ranges left with a probed total over the ceiling
    it_err,         \* HTTP status of the failure that left the generator, else 0
    \* lines 1288-1332 run twice on one aggregate (FilterSpec)
    run_lo,         \* <<>> or <<[min_a, min_i, cap, authors, institutions, entries, kept]>>
    run_hi,         \* the same for the run with one threshold raised
    \* build_institution_dataset.build_dataset (InstSpec)
    institutions_list,  \* the names given to build_dataset
    max_inst_arg,       \* max_institutions: <<>> or <<n>>
    bi_pc,              \* "idle", "loop" or "done"
    li,                 \* position in institutions_list of the name taken next
    inst_key_map,       \* institution name -> number of its inst key
    inst_count,
    bi_institutions,    \* number of an inst key -> [name, region]
    authors_entries     \* [name, institution, at]: at is the position of
                        \* the name under which the author was harvested

pvars == <<pc, vcfg, vi, source_ids, si, nYield, nInfos, seen_work_ids, institutions,
           author_inst, venues_out, lastSources, diskCache, tmpFile, dataset, written, aggCount,
           arrivals>>

rvars == <<nResolved, netDoi, netTitle, lastDoi, lastTitle>>

ivars == <<it_args, service, it_pc, it_range, it_stack, it_total, it_limit, it_page,
           yielded, warnings, over_cap, it_err>>

fvars == <<run_lo, run_hi>>

\* build_institution_dataset.build_dataset
bvars == <<institutions_list, max_inst_arg, bi_pc, li, inst_key_map, inst_count,
           bi_institutions, authors_entries>>

vars == <<pvars, cache, rvars, ivars, fvars, bvars>>

TitleKeys == {TitleKey(Strip(i.title), i.year_int) : i \in DblpInfos}

EmptyCache == [doi |-> EmptyFn, title |-> EmptyFn]

\* caches load_openalex_cache can have read: none, or one left by an earlier run
InitialCaches ==
    { EmptyCache,
      [doi |-> ("d1" :> _slim_openalex_work(WorkById("w1"))), title |-> EmptyFn] }

\* a file is absent, or holds the first upto top-level members ("doi", then
\* "title") of the JSON text of data
NoFile == <<>>
NumMembers == 2

Written(c, n) == <<[data |-> c, upto |-> n]>>

Whole(c) == Written(c, NumMembers)

\* lines 555-565: a cache file that is absent or does not parse gives a fresh
\* cache
load_openalex_cache(file) ==
    IF file # NoFile /\ file[1].upto = NumMembers THEN file[1].data ELSE EmptyCache

InitialFiles == {NoFile} \cup {Whole(c) : c \in InitialCaches \ {EmptyCache}}

NoVenue == Venue("", "", <<>>, "", FALSE)

InitPipeline ==
    /\ pc = "venue"
    /\ vcfg = NoVenue
    /\ vi = 0
    /\ source_ids = <<>>
    /\ si = 1
    /\ nYield = 0
    /\ nInfos = 0
    /\ seen_work_ids = {}
    /\ institutions = EmptyFn
    /\ author_inst = EmptyFn
    /\ venues_out = <<>>
    /\ lastSources = <<>>
    /\ diskCache \in InitialFiles
    /\ tmpFile = NoFile
    /\ cache = load_openalex_cache(diskCache)
    /\ dataset = <<>>
    /\ written = FALSE
    /\ aggCount = [id \in WorkIds |-> 0]
    /\ arrivals = [id \in WorkIds |-> 0]

InitResolve ==
    /\ nResolved = 0
    /\ netDoi = [d \in Dois |-> 0]
    /\ netTitle = [k \in TitleKeys |-> 0]
    /\ lastDoi = NoLookup
    /\ lastTitle = NoTitleLookup

FilterIdle == run_lo = <<>> /\ run_hi = <<>>

\* build_dataset of build_institution_dataset.py is not running
BuildIdle ==
    /\ institutions_list = <<>>
    /\ max_inst_arg = <<>>
    /\ bi_pc = "idle"
    /\ li = 1
    /\ inst_key_map = EmptyFn
    /\ inst_count = 0
    /\ bi_institutions = EmptyFn
    /\ authors_entries = {}

\* the iterator's own state while a run is observed as a whole
IterIdle ==
    /\ it_args = [start_year |-> MinYear, end_year |-> MinYear, max_pages |-> NoPageCap]
    /\ service = [consistent |-> TRUE, counts |-> NoYears]
    /\ it_pc = "idle"
    /\ it_range = <<MinYear, MinYear>>
    /\ it_stack = <<>>
    /\ it_total = <<>>
    /\ it_limit = 0
    /\ it_page = 1
    /\ yielded = NoYears
    /\ warnings = {}
    /\ over_cap = {}
    /\ it_err = 0

Init ==
    /\ cache \in InitialCaches
    /\ InitPipeline
    /\ InitResolve
    /\ IterIdle
    /\ FilterIdle
    /\ BuildIdle

\* ------------------------------------------------------------------------
\* Actions of the pipeline
\* ------------------------------------------------------------------------
\* the for loop over venues_cfg takes its next venue
TakeVenue(v) ==
    /\ pc = "venue"
    /\ vi < MaxVenues
    /\ vi' = vi + 1
    /\ vcfg' = v

\* lines 1187-1200 and 1025-1042: a venue with dblp_venue goes to the bridge
VenueDblp ==
    /\ \E v \in VenueChoices :
         /\ TakeVenue(v)
         /\ v.dblp_venue # ""
         /\ venues_out' = Append(venues_out, v.code)
    /\ lastSources' = <<>>
    /\ nInfos' = 0
    /\ pc' = "dblp"
    /\ UNCHANGED tmpFile
    /\ UNCHANGED <<source_ids, si, nYield, seen_work_ids, institutions, author_inst,
                   cache, diskCache, dataset, written, aggCount, arrivals, rvars, ivars, fvars, bvars>>

\* lines 1203-1206, 1220: explicit source ids
VenueExplicit ==
    /\ \E v \in VenueChoices :
         /\ TakeVenue(v)
         /\ v.dblp_venue = ""
         /\ v.source_ids # <<>>
         /\ source_ids' = v.source_ids
         /\ venues_out' = Append(venues_out, v.code)
    /\ lastSources' = <<>>
    /\ si' = 1
    /\ nYield' = 0
    /\ pc' = "iter"
    /\ UNCHANGED tmpFile
    /\ UNCHANGED <<nInfos, seen_work_ids, institutions, author_inst, cache, diskCache,
                   dataset, written, aggCount, arrivals, rvars, ivars, fvars, bvars>>

\* lines 1208-1220: source ids found by search
VenueSearch ==
    /\ \E v \in VenueChoices, ans \in SourceAnswers :
         LET ids == find_source_ids_for_venue(v.search, ans)
         IN  /\ TakeVenue(v)
             /\ v.dblp_venue = ""
             /\ v.source_ids = <<>>
             /\ v.search # ""
             /\ ids # <<>>
             /\ source_ids' = ids
             /\ venues_out' = Append(venues_out, v.code)
             /\ lastSources' = <<ans>>
    /\ si' = 1
    /\ nYield' = 0
    /\ pc' = "iter"
    /\ UNCHANGED tmpFile
    /\ UNCHANGED <<nInfos, seen_work_ids, institutions, author_inst, cache, diskCache,
                   dataset, written, aggCount, arrivals, rvars, ivars, fvars, bvars>>

\* lines 1209-1216: nothing to resolve the venue with, or no source found
VenueSkip ==
    /\ \E v \in VenueChoices :
         /\ TakeVenue(v)
         /\ v.dblp_venue = ""
         /\ v.source_ids = <<>>
         /\ \/ /\ v.search = ""
               /\ lastSources' = <<>>
            \/ /\ v.search # ""
               /\ \E ans \in SourceAnswers :
                    /\ find_source_ids_for_venue(v.search, ans) = <<>>
                    /\ lastSources' = <<ans>>
    /\ UNCHANGED tmpFile
    /\ UNCHANGED <<pc, source_ids, si, nYield, nInfos, seen_work_ids, institutions,
                   author_inst, venues_out, cache, diskCache, dataset, written,
                   aggCount, arrivals, rvars, ivars, fvars, bvars>>

Agg == [institutions |-> institutions, author_inst |-> author_inst]

\* lines 663-692: with require_keywords the request carries
\* title.search:<keywords>, which the service matches against the title only
TitleSearchMatches(work) == HasKeyword(Lower(OrElse(work.title, work.display_name)))

\* the works a source can answer with
SourceWorks(require_keywords) ==
    IF require_keywords THEN {w \in Works : TitleSearchMatches(w)} ELSE Works

\* lines 1226-1286: iter_works_for_source yields a work and the loop body runs
IterYield ==
    /\ pc = "iter"
    /\ nYield < MaxYield
    /\ \E work \in SourceWorks(vcfg.require_keywords) :
         LET r == ProcessDirect(seen_work_ids, Agg, work, vcfg)
         IN  /\ seen_work_ids' = r.seen
             /\ institutions' = r.agg.institutions
             /\ author_inst' = r.agg.author_inst
             /\ aggCount' = IF r.aggregated /\ work.id # ""
                            THEN Bump(aggCount, work.id) ELSE aggCount
             /\ arrivals' = IF work.id # "" THEN Bump(arrivals, work.id) ELSE arrivals
    /\ nYield' = nYield + 1
    /\ UNCHANGED lastSources
    /\ UNCHANGED tmpFile
    /\ UNCHANGED <<pc, vcfg, vi, source_ids, si, nInfos, venues_out, cache, diskCache,
                   dataset, written, rvars, ivars, fvars, bvars>>

\* lines 703, 754: the page-1 probe fails, or a later page fails with a status
\* other than 409; nothing up to main() catches the exception
IterRaise ==
    /\ pc = "iter"
    /\ pc' = "aborted"
    /\ UNCHANGED lastSources
    /\ UNCHANGED tmpFile
    /\ UNCHANGED <<vcfg, vi, source_ids, si, nYield, nInfos, seen_work_ids,
                   institutions, author_inst, venues_out, cache, diskCache, dataset,
                   written, aggCount, arrivals, rvars, ivars, fvars, bvars>>

\* the iterator is exhausted: next source id, or next venue
IterEnd ==
    /\ pc = "iter"
    /\ IF si < Len(source_ids)
       THEN /\ si' = si + 1
            /\ pc' = pc
       ELSE /\ si' = 1
            /\ pc' = "venue"
    /\ nYield' = 0
    /\ UNCHANGED lastSources
    /\ UNCHANGED tmpFile
    /\ UNCHANGED <<vcfg, vi, source_ids, nInfos, seen_work_ids, institutions, author_inst,
                   venues_out, cache, diskCache, dataset, written, aggCount, arrivals, rvars, ivars, fvars, bvars>>

\* lines 1046-1114: one DBLP record
DblpStep ==
    /\ pc = "dblp"
    /\ nInfos < MaxInfos
    /\ \E info \in DblpInfos :
         \E ans \in AnswerPairs(cache, info, vcfg.require_keywords) :
           LET res == ResolveDblp(cache, info, vcfg.require_keywords, ans[1], ans[2])
               r == IF res.skip
                    THEN [seen |-> seen_work_ids, agg |-> Agg, aggregated |-> FALSE]
                    ELSE ProcessDblp(seen_work_ids, Agg, res.work[1], info, vcfg)
           IN  /\ cache' = res.cache
               /\ seen_work_ids' = r.seen
               /\ institutions' = r.agg.institutions
               /\ author_inst' = r.agg.author_inst
               /\ aggCount' = IF r.aggregated /\ res.work[1].id # ""
                              THEN Bump(aggCount, res.work[1].id) ELSE aggCount
               /\ arrivals' = IF ~res.skip /\ res.work[1].id # ""
                              THEN Bump(arrivals, res.work[1].id) ELSE arrivals
    /\ nInfos' = nInfos + 1
    /\ UNCHANGED lastSources
    /\ UNCHANGED tmpFile
    /\ UNCHANGED <<pc, vcfg, vi, source_ids, si, nYield, venues_out, diskCache, dataset,
                   written, rvars, ivars, fvars, bvars>>

\* harvest_dblp_venue returns
DblpEnd ==
    /\ pc = "dblp"
    /\ pc' = "venue"
    /\ UNCHANGED lastSources
    /\ UNCHANGED tmpFile
    /\ UNCHANGED <<vcfg, vi, source_ids, si, nYield, nInfos, seen_work_ids, institutions,
                   author_inst, venues_out, cache, diskCache, dataset, written,
                   aggCount, arrivals, rvars, ivars, fvars, bvars>>

\* thresholds and cap the pipeline is run with
MaxMinAuthor == 2
MaxMinInst == 0
MaxCap == 2

Caps == {NoCap} \cup {<<k>> : k \in 0..MaxCap}

\* lines 1288-1365: all venues processed; filter and emit
BuildFinish ==
    /\ pc = "venue"
    /\ \E min_a \in 1..MaxMinAuthor, min_i \in 0..MaxMinInst, cap \in Caps :
         \E f \in PostFilter(author_inst, institutions, min_a, min_i, cap) :
           \E order \in InstOrders(f.institutions) :
             dataset' = <<Emit(venues_out, f, order)>>
    /\ pc' = "built"
    /\ UNCHANGED lastSources
    /\ UNCHANGED tmpFile
    /\ UNCHANGED <<vcfg, vi, source_ids, si, nYield, nInfos, seen_work_ids, institutions,
                   author_inst, venues_out, cache, diskCache, written, aggCount, arrivals, rvars, ivars, fvars, bvars>>

\* a save that writes the JSON text straight into the cache file
WritePathInPlace == "cache"

\* line 570: the JSON text goes to OPENALEX_CACHE_PATH.with_suffix(".tmp")
WritePath == "tmp"

FileAt(path) == IF path = "tmp" THEN tmpFile ELSE diskCache

\* the file at path becomes content, the other file stays
PutFile(path, content) ==
    IF path = "tmp"
    THEN tmpFile' = content /\ UNCHANGED diskCache
    ELSE diskCache' = content /\ UNCHANGED tmpFile

SaveFrame ==
    UNCHANGED <<vcfg, vi, source_ids, si, nYield, nInfos, seen_work_ids, institutions,
                author_inst, venues_out, lastSources, cache, dataset, written, aggCount,
                arrivals, rvars, ivars, fvars, bvars>>

\* line 572: open(..., "w") creates the file or truncates it
SaveOpen ==
    /\ pc = "built"
    /\ PutFile(WritePath, Written(cache, 0))
    /\ pc' = "saving"
    /\ SaveFrame

\* line 573: json.dump writes the next member
SaveDump ==
    /\ pc = "saving"
    /\ FileAt(WritePath)[1].upto < NumMembers
    /\ PutFile(WritePath, Written(cache, FileAt(WritePath)[1].upto + 1))
    /\ pc' = pc
    /\ SaveFrame

\* line 574: the written file takes the place of the cache file in one step
SaveReplace ==
    /\ pc = "saving"
    /\ FileAt(WritePath)[1].upto = NumMembers
    /\ diskCache' = FileAt(WritePath)
    /\ tmpFile' = NoFile
    /\ pc' = "saved"
    /\ SaveFrame

\* lines 576-577: opening, writing or replacing raised; the exception is
\* printed and the files stay as they are at that point
SaveFail ==
    /\ pc \in {"built", "saving"}
    /\ pc' = "saved"
    /\ UNCHANGED <<diskCache, tmpFile>>
    /\ SaveFrame

\* the process dies, at any point of the run
Crash ==
    /\ pc # "crashed"
    /\ pc' = "crashed"
    /\ UNCHANGED <<diskCache, tmpFile>>
    /\ SaveFrame

\* lines 1447-1451: the dataset is written
WriteJson ==
    /\ pc = "saved"
    /\ written' = TRUE
    /\ pc' = "written"
    /\ UNCHANGED lastSources
    /\ UNCHANGED tmpFile
    /\ UNCHANGED <<vcfg, vi, source_ids, si, nYield, nInfos, seen_work_ids, institutions,
                   author_inst, venues_out, cache, diskCache, dataset, aggCount, arrivals, rvars, ivars, fvars, bvars>>

Next ==
    \/ VenueDblp
    \/ VenueExplicit
    \/ VenueSearch
    \/ VenueSkip
    \/ IterYield
    \/ IterRaise
    \/ IterEnd
    \/ DblpStep
    \/ DblpEnd
    \/ BuildFinish
    \/ SaveOpen
    \/ SaveDump
    \/ SaveReplace
    \/ SaveFail
    \/ Crash
    \/ WriteJson

Spec == Init /\ [][Next]_vars

\* ------------------------------------------------------------------------
\* The bridge's resolution step on its own
\* ------------------------------------------------------------------------
\* records resolved in one run of ResolveSpec
MaxResolve == 3

\* lines 1046-1064 for one DBLP record of a venue with or without
\* require_keywords, against the shared cache
ResolveStep ==
    /\ nResolved < MaxResolve
    /\ \E info \in DblpInfos, kw \in BOOLEAN :
         \E ans \in AnswerPairs(cache, info, kw) :
           LET res == ResolveDblp(cache, info, kw, ans[1], ans[2])
           IN  /\ cache' = res.cache
               /\ lastDoi' = res.doi
               /\ lastTitle' = res.title
               /\ netDoi' = IF res.doi.net THEN Bump(netDoi, res.doi.key) ELSE netDoi
               /\ netTitle' = IF res.title.net THEN Bump(netTitle, res.title.key)
                              ELSE netTitle
    /\ nResolved' = nResolved + 1
    /\ UNCHANGED <<pvars, ivars, fvars, bvars>>

ResolveSpec == Init /\ [][ResolveStep]_vars

\* ------------------------------------------------------------------------
\* iter_works_for_source on its own
\* ------------------------------------------------------------------------
\* the sources a call can meet: consistent ones with any count per year of
\* the range, and one that answers anything
Services(y0, y1) ==
    {[consistent |-> TRUE, counts |-> c] :
        c \in {f \in [Years -> YearCounts] :
                 \A y \in Years : (y < y0 \/ y > y1) => f[y] = 0}}
    \cup {[consistent |-> FALSE, counts |-> NoYears]}

\* statuses raise_for_status (line 595) turns into an HTTPError: the one
\* OpenAlex gives a page that is out of range, and a server error
OutOfRange == 409
HttpErrors == {OutOfRange, 500}

\* line 770: the call on the full range is about to probe
IterInit ==
    /\ cache = EmptyCache
    /\ InitPipeline
    /\ InitResolve
    /\ FilterIdle
    /\ BuildIdle
    /\ it_args \in [start_year : Years, end_year : Years, max_pages : PageCaps]
    /\ service \in Services(it_args.start_year, it_args.end_year)
    /\ it_pc = "probe"
    /\ it_range = <<it_args.start_year, it_args.end_year>>
    /\ it_stack = <<>>
    /\ it_total = <<>>
    /\ it_limit = 0
    /\ it_page = 1
    /\ yielded = NoYears
    /\ warnings = {}
    /\ over_cap = {}
    /\ it_err = 0

\* _iter_year_range returns: the caller goes on to its right half, or the
\* generator is exhausted
ReturnFromRange(total) ==
    /\ over_cap' = IF total # <<>> /\ total[1] > ResultCap /\ it_range[1] = it_range[2]
                   THEN over_cap \cup {it_range}
                   ELSE over_cap
    /\ IF it_stack = <<>>
       THEN /\ it_pc' = "done"
            /\ UNCHANGED <<it_range, it_stack>>
       ELSE /\ it_pc' = "probe"
            /\ it_range' = Head(it_stack)
            /\ it_stack' = Tail(it_stack)

\* lines 761-767: a non-empty page is yielded and the page counter moves on
YieldPage(ans, page, limit, total) ==
    /\ yielded' = [y \in Years |-> yielded[y] + ans.by[y]]
    /\ it_page' = page + 1
    /\ IF page + 1 > limit
       THEN ReturnFromRange(total)
       ELSE /\ it_pc' = "page"
            /\ UNCHANGED <<it_range, it_stack, over_cap>>

\* lines 703-725: the probe says the range is over the ceiling and spans
\* more than one year; the left half is entered, the right half is pending
IterBisect ==
    /\ it_pc = "probe"
    /\ \E ans \in PageAnswers(service, it_range[1], it_range[2], 1) :
         /\ ShouldBisect(ans.total, it_range[1], it_range[2])
         /\ it_total' = ans.total
         /\ it_limit' = effective_page_limit(it_args.max_pages, ans.total)
    /\ LET mid == Mid(it_range[1], it_range[2])
       IN  /\ it_range' = <<it_range[1], mid>>
           /\ it_stack' = <<<<mid + 1, it_range[2]>>>> \o it_stack
    /\ it_page' = 1
    /\ UNCHANGED <<it_pc, it_args, service, yielded, warnings, over_cap>>
    /\ UNCHANGED it_err
    /\ UNCHANGED <<pvars, cache, rvars, fvars, bvars>>

\* lines 703-715, 728-731, 758-767: the probe's results are page 1
IterFirstPage ==
    /\ it_pc = "probe"
    /\ \E ans \in PageAnswers(service, it_range[1], it_range[2], 1) :
         /\ ~ShouldBisect(ans.total, it_range[1], it_range[2])
         /\ it_total' = ans.total
         /\ it_limit' = effective_page_limit(it_args.max_pages, ans.total)
         /\ IF ans.n = 0
            THEN /\ ReturnFromRange(ans.total)
                 /\ it_page' = 1
                 /\ UNCHANGED <<yielded>>
            ELSE YieldPage(ans, 1, effective_page_limit(it_args.max_pages, ans.total),
                           ans.total)
    /\ UNCHANGED <<it_args, service, warnings>>
    /\ UNCHANGED it_err
    /\ UNCHANGED <<pvars, cache, rvars, fvars, bvars>>

\* line 703: the probe is outside any try, whatever it raises leaves the
\* generator
IterProbeRaise ==
    /\ it_pc = "probe"
    /\ ~service.consistent
    /\ it_pc' = "raised"
    /\ it_err' \in HttpErrors
    /\ UNCHANGED <<it_args, service, it_range, it_stack, it_total, it_limit, it_page,
                   yielded, warnings, over_cap>>
    /\ UNCHANGED <<pvars, cache, rvars, fvars, bvars>>

\* lines 732-767: a further page is requested and answered
IterPage ==
    /\ it_pc = "page"
    /\ IF it_page > it_limit
       THEN /\ ReturnFromRange(it_total)
            /\ UNCHANGED <<it_page, yielded>>
       ELSE \E ans \in PageAnswers(service, it_range[1], it_range[2], it_page) :
              IF ans.n = 0
              THEN /\ ReturnFromRange(it_total)
                   /\ UNCHANGED <<it_page, yielded>>
              ELSE YieldPage(ans, it_page, it_limit, it_total)
    /\ UNCHANGED <<it_args, service, it_total, it_limit, warnings>>
    /\ UNCHANGED it_err
    /\ UNCHANGED <<pvars, cache, rvars, fvars, bvars>>

\* lines 745-753: a further page is answered 409; a warning is printed and
\* the range ends
IterPage409 ==
    /\ it_pc = "page"
    /\ it_page <= it_limit
    /\ ~service.consistent
    /\ warnings' = warnings \cup {[kind |-> "409", range |-> it_range]}
    /\ ReturnFromRange(it_total)
    /\ UNCHANGED <<it_args, service, it_total, it_limit, it_page, yielded>>
    /\ UNCHANGED it_err
    /\ UNCHANGED <<pvars, cache, rvars, fvars, bvars>>

\* line 754: any other failure of a further page leaves the generator
IterPageRaise ==
    /\ it_pc = "page"
    /\ it_page <= it_limit
    /\ ~service.consistent
    /\ it_pc' = "raised"
    /\ it_err' \in HttpErrors \ {OutOfRange}
    /\ UNCHANGED <<it_args, service, it_range, it_stack, it_total, it_limit, it_page,
                   yielded, warnings, over_cap>>
    /\ UNCHANGED <<pvars, cache, rvars, fvars, bvars>>

IterNext ==
    \/ IterBisect
    \/ IterFirstPage
    \/ IterProbeRaise
    \/ IterPage
    \/ IterPage409
    \/ IterPageRaise

IterSpec == IterInit /\ [][IterNext]_vars

\* the consumer keeps asking the generator for its next work
IterLiveSpec == IterInit /\ [][IterNext]_vars /\ WF_vars(IterNext)

\* ------------------------------------------------------------------------
\* build_institution_dataset.build_dataset
\* ------------------------------------------------------------------------
\* names in the list given to build_dataset, and the largest --max-institutions
MaxNames == 3
MaxInstArg == 2

InstNames == {"Alpha U", "Beta U", " "}

\* authors that pass min_papers for one institution: none when the
\* institution id is not found (line 253), no works come back (line 257) or
\* no author has enough publications (line 309)
HarvestedAuthors == SUBSET {"a1", "a2"}

\* what get_institution_region can answer
BuildRegions == {"Europe", "Other"}

InstInit ==
    /\ cache = EmptyCache
    /\ InitPipeline
    /\ InitResolve
    /\ IterIdle
    /\ FilterIdle
    /\ institutions_list \in UNION {[1..n -> InstNames] : n \in 0..MaxNames}
    /\ max_inst_arg \in {<<>>} \cup {<<n>> : n \in 0..MaxInstArg}
    /\ bi_pc = "loop"
    /\ li = 1
    /\ inst_key_map = EmptyFn
    /\ inst_count = 0
    /\ bi_institutions = EmptyFn
    /\ authors_entries = {}

\* line 246: max_institutions is set and reached
CapReached == max_inst_arg # <<>> /\ inst_count >= max_inst_arg[1]

\* line 313: key = f"inst{len(inst_key_map)}"
NextKey == Cardinality(DOMAIN inst_key_map)

\* lines 246-247: break
BuildBreak ==
    /\ bi_pc = "loop"
    /\ li <= Len(institutions_list)
    /\ CapReached
    /\ bi_pc' = "done"
    /\ UNCHANGED <<institutions_list, max_inst_arg, li, inst_key_map, inst_count,
                   bi_institutions, authors_entries>>
    /\ UNCHANGED <<pvars, cache, rvars, ivars, fvars>>

\* lines 248-257, 308-311: the name is blank, or nothing is harvested for it
BuildSkip ==
    /\ bi_pc = "loop"
    /\ li <= Len(institutions_list)
    /\ ~CapReached
    /\ \/ Strip(institutions_list[li]) = ""
       \/ {} \in HarvestedAuthors
    /\ li' = li + 1
    /\ UNCHANGED <<institutions_list, max_inst_arg, bi_pc, inst_key_map, inst_count,
                   bi_institutions, authors_entries>>
    /\ UNCHANGED <<pvars, cache, rvars, ivars, fvars>>

\* lines 248-323: the institution yields authors; it gets a key and its
\* authors are appended under that key
BuildAdd ==
    /\ bi_pc = "loop"
    /\ li <= Len(institutions_list)
    /\ ~CapReached
    /\ LET inst_name == Strip(institutions_list[li])
           key == NextKey
       IN  /\ inst_name # ""
           /\ \E filtered_authors \in HarvestedAuthors \ {{}}, region \in BuildRegions :
                /\ inst_key_map' = (inst_name :> key) @@ inst_key_map
                /\ bi_institutions' =
                       (key :> [name |-> inst_name, region |-> region]) @@ bi_institutions
                /\ authors_entries' = authors_entries \cup
                       {[name |-> aid, institution |-> key, at |-> li] :
                          aid \in filtered_authors}
    /\ inst_count' = inst_count + 1
    /\ li' = li + 1
    /\ UNCHANGED <<institutions_list, max_inst_arg, bi_pc>>
    /\ UNCHANGED <<pvars, cache, rvars, ivars, fvars>>

\* lines 324-329: the list is exhausted and the dataset is returned
BuildReturn ==
    /\ bi_pc = "loop"
    /\ li > Len(institutions_list)
    /\ bi_pc' = "done"
    /\ UNCHANGED <<institutions_list, max_inst_arg, li, inst_key_map, inst_count,
                   bi_institutions, authors_entries>>
    /\ UNCHANGED <<pvars, cache, rvars, ivars, fvars>>

InstNext ==
    \/ BuildBreak
    \/ BuildSkip
    \/ BuildAdd
    \/ BuildReturn

InstSpec == InstInit /\ [][InstNext]_vars

\* ------------------------------------------------------------------------
\* The thresholds and the cap on their own
\* ------------------------------------------------------------------------
\* entries per institution, publication counts of an entry, and institution
\* thresholds tried
MaxAuthors == 4
MaxPubs == 7
MaxFilterMinInst == 2

AuthorIds == <<"a1", "a2", "a3", "a4", "a5", "a6">>

PubCounts == {1, 2, 3, MaxPubs}

\* n distinct publication records
PubList(n) == [j \in 1..n |-> [year |-> MinYear + j - 1, venue |-> "PRX", title |-> "Quantum A"]]

\* publication counts of the entries of one institution, largest first
Profiles ==
    {p \in UNION {[1..n -> PubCounts] : n \in 0..MaxAuthors} :
        \A j \in 1..(Len(p) - 1) : p[j] >= p[j + 1]}

\* the aggregate the loops leave for two institutions with these profiles
Aggregate(p1, p2) ==
    LET entry(aid, inst, n) ==
            [name |-> aid, institution_id |-> inst.id, publications |-> PubList(n)]
        keys1 == {<<AuthorIds[j], Inst1.id>> : j \in 1..Len(p1)}
        keys2 == {<<AuthorIds[j], Inst2.id>> : j \in 1..Len(p2)}
        found == {i \in {Inst1, Inst2} : (i = Inst1 /\ p1 # <<>>) \/ (i = Inst2 /\ p2 # <<>>)}
    IN  [author_inst |->
            [k \in keys1 \cup keys2 |->
                LET j == CHOOSE n \in 1..MaxAuthors : AuthorIds[n] = k[1]
                IN  IF k[2] = Inst1.id THEN entry(k[1], Inst1, p1[j])
                    ELSE entry(k[1], Inst2, p2[j])],
         institutions |->
            [id \in {i.id : i \in found} |->
                LET i == CHOOSE x \in found : x.id = id
                IN  [name |-> i.display_name,
                     region |-> region_from_country_code(i.country_code)]]]

\* line 1288 is reached with some aggregate
FilterInit ==
    /\ cache = EmptyCache
    /\ InitResolve
    /\ IterIdle
    /\ FilterIdle
    /\ BuildIdle
    /\ pc = "venue"
    /\ vcfg = NoVenue
    /\ vi = 0
    /\ source_ids = <<>>
    /\ si = 1
    /\ nYield = 0
    /\ nInfos = 0
    /\ seen_work_ids = {}
    /\ \E p1, p2 \in Profiles :
         /\ institutions = Aggregate(p1, p2).institutions
         /\ author_inst = Aggregate(p1, p2).author_inst
    /\ venues_out = <<>>
    /\ lastSources = <<>>
    /\ diskCache = NoFile
    /\ tmpFile = NoFile
    /\ dataset = <<>>
    /\ written = FALSE
    /\ aggCount = [id \in WorkIds |-> 0]
    /\ arrivals = [id \in WorkIds |-> 0]

\* lines 1288-1332 with these thresholds and cap: what the final dataset can
\* hold
RunFilter(min_a, min_i, cap) ==
    {[min_a |-> min_a, min_i |-> min_i, cap |-> cap,
      authors |-> Cardinality(DOMAIN f.author_inst),
      institutions |-> Cardinality(DOMAIN f.institutions),
      entries |-> DOMAIN f.author_inst,
      kept |-> DOMAIN f.institutions] :
        f \in PostFilter(author_inst, institutions, min_a, min_i, cap)}

FilterLow ==
    /\ run_lo = <<>>
    /\ \E min_a \in 1..MaxMinAuthor, min_i \in 0..MaxFilterMinInst, cap \in Caps :
         \E r \in RunFilter(min_a, min_i, cap) : run_lo' = <<r>>
    /\ UNCHANGED <<pvars, cache, rvars, ivars, bvars, run_hi>>

\* the same aggregate, min_papers_per_author raised
FilterRaiseAuthor ==
    /\ run_lo # <<>>
    /\ run_hi = <<>>
    /\ \E min_a \in (run_lo[1].min_a + 1)..(MaxMinAuthor + 1) :
         \E r \in RunFilter(min_a, run_lo[1].min_i, run_lo[1].cap) : run_hi' = <<r>>
    /\ UNCHANGED <<pvars, cache, rvars, ivars, bvars, run_lo>>

\* the same aggregate, min_papers_per_institution raised
FilterRaiseInst ==
    /\ run_lo # <<>>
    /\ run_hi = <<>>
    /\ \E min_i \in (run_lo[1].min_i + 1)..(MaxFilterMinInst + 1) :
         \E r \in RunFilter(run_lo[1].min_a, min_i, run_lo[1].cap) : run_hi' = <<r>>
    /\ UNCHANGED <<pvars, cache, rvars, ivars, bvars, run_lo>>

FilterNext ==
    \/ FilterLow
    \/ FilterRaiseAuthor
    \/ FilterRaiseInst

FilterSpec == FilterInit /\ [][FilterNext]_vars

\* ------------------------------------------------------------------------
\* Claims
\* ------------------------------------------------------------------------
\* C1: within one run, a work with a given non-empty OpenAlex id is aggregated
\* at most once, whether it arrives through the iterator or through the bridge.
C1_AggregatedAtMostOnce == \A id \in WorkIds : aggCount[id] <= 1

\* a work id that arrived a second time, through the bridge after a direct
\* venue, and is still aggregated once
C1_Witness ==
    /\ pc = "dblp"
    /\ Len(venues_out) = 2
    /\ venues_out[1] \in {"PRX", "PRL"}
    /\ \E id \in WorkIds : arrivals[id] >= 2 /\ aggCount[id] = 1

\* C2: on both paths, no (author, institution) entry's publication list holds
\* two records with the same (year, venue, title).
C2_NoDuplicatePublications ==
    \A k \in DOMAIN author_inst :
        LET pubs == author_inst[k].publications
        IN  \A a, b \in 1..Len(pubs) : a # b => pubs[a] # pubs[b]

\* C8: whatever external call fails during harvesting, the run is not stopped
\* before the dataset accumulated so far is written.
C8_FailureStillWrites == pc = "aborted" => written

\* C9 as claimed: every resolution outcome, found or not, is recorded under its
\* key, so no key is requested from the network twice in one run.
C9_EveryOutcomeCached ==
    /\ lastDoi.called => lastDoi.key \in DOMAIN cache.doi
    /\ lastTitle.called => lastTitle.key \in DOMAIN cache.title
    /\ \A d \in Dois : netDoi[d] <= 1
    /\ \A k \in TitleKeys : netTitle[k] <= 1

\* what the last step's lookups left in the cache: a found work is stored
\* under its key, a not-found, empty or failed outcome is not stored
LookupsRecorded ==
    /\ lastDoi.called /\ lastDoi.work # <<>> =>
         /\ lastDoi.key \in DOMAIN cache.doi
         /\ cache.doi[lastDoi.key] = lastDoi.work[1]
    /\ lastDoi.called /\ lastDoi.work = <<>> => lastDoi.key \notin DOMAIN cache.doi
    /\ lastTitle.called /\ lastTitle.work # <<>> =>
         /\ lastTitle.key \in DOMAIN cache.title
         /\ cache.title[lastTitle.key] = lastTitle.work[1]
    /\ lastTitle.called /\ lastTitle.work = <<>> =>
         lastTitle.key \notin DOMAIN cache.title

\* no step issues a request for a key the cache holds
CachedKeysNotRequested ==
    /\ \A d \in DOMAIN cache.doi : netDoi'[d] = netDoi[d]
    /\ \A k \in DOMAIN cache.title : netTitle'[k] = netTitle[k]

\* C9 as amended: every resolution that finds a work is recorded in the cache
\* under its DOI or lowercased-title|year key, and a key the cache holds is
\* never requested from the network again; an outcome without a work is not
\* recorded.
C9_FoundOutcomesCached == []LookupsRecorded /\ [][CachedKeysNotRequested]_vars

\* a title key resolved over the network in this run and then served from
\* the cache
C9_Witness ==
    /\ lastTitle.called
    /\ ~lastTitle.net
    /\ lastTitle.work # <<>>
    /\ netTitle[lastTitle.key] = 1

\* C10: once a DOI has resolved to a work, every later lookup of that DOI
\* returns the work the cache holds for it, unchanged, and issues no request.
C10_SecondDoiLookupFromCache ==
    [][\A d \in DOMAIN cache.doi :
          /\ d \in DOMAIN cache'.doi
          /\ cache'.doi[d] = cache.doi[d]
          /\ lastDoi'.called /\ lastDoi'.key = d =>
               /\ lastDoi'.work = <<cache.doi[d]>>
               /\ ~lastDoi'.net
               /\ netDoi'[d] = netDoi[d]]_vars

\* a DOI resolved over the network by an earlier record and looked up again
C10_Witness ==
    /\ nResolved >= 2
    /\ lastDoi.called
    /\ ~lastDoi.net
    /\ netDoi[lastDoi.key] = 1
    /\ lastDoi.work = <<cache.doi[lastDoi.key]>>

\* C5: with no page cap and a consistent service, a range whose total is over
\* the ceiling while every single year is within it is yielded completely,
\* and a range whose total is within the ceiling yields what paging the full
\* range directly yields.
C5_NoSilentTruncation ==
    it_pc = "done" /\ service.consistent /\ it_args.max_pages = NoPageCap =>
        LET y0 == it_args.start_year
            y1 == it_args.end_year
            total == CountIn(service.counts, y0, y1)
        IN  /\ total > ResultCap /\ (\A y \in y0..y1 : service.counts[y] <= ResultCap) =>
                 yielded = [y \in Years |->
                               IF y0 <= y /\ y <= y1 THEN service.counts[y] ELSE 0]
            /\ total <= ResultCap => yielded = DirectPaging(service.counts, y0, y1)

\* a three-year range over the ceiling, no year of it over the ceiling,
\* yielded completely
C5_Witness ==
    /\ it_pc = "done"
    /\ service.consistent
    /\ it_args.max_pages = NoPageCap
    /\ it_args.end_year - it_args.start_year >= 2
    /\ CountIn(service.counts, it_args.start_year, it_args.end_year) > ResultCap
    /\ \A y \in Years : service.counts[y] \in 1..ResultCap
    /\ yielded = service.counts

\* a bisection leaves two non-empty ranges, both narrower than the one split
Narrower ==
    Len(it_stack') = Len(it_stack) + 1 =>
        LET left == it_range'
            right == Head(it_stack')
            width == it_range[2] - it_range[1]
        IN  /\ left[1] <= left[2] /\ left[2] - left[1] < width
            /\ right[1] <= right[2] /\ right[2] - right[1] < width

\* C6: whatever the range, the page cap and the service's answers, the
\* iterator terminates: every recursive call is on a narrower range, no range
\* requests a page past the ceiling's, and the generator ends or raises.
C6_Terminates ==
    /\ [][Narrower]_vars
    /\ [](it_page <= (ResultCap \div PerPage) + 1)
    /\ <>(it_pc \in {"done", "raised"})

\* a multi-year call whose service kept answering a total over the ceiling,
\* bisected down to single years and paged to the last page, has ended
C6_Witness ==
    /\ it_pc = "done"
    /\ ~service.consistent
    /\ it_args.start_year < it_args.end_year
    /\ it_args.max_pages = NoPageCap
    /\ over_cap # {}
    /\ it_page = (ResultCap \div PerPage) + 1

\* C7: every single-year range whose probed total is over the ceiling has a
\* warning logged for it by the time the iterator leaves it.
C7_CapWarningLogged == \A r \in over_cap : \E w \in warnings : w.range = r

AuthorRaised == run_hi # <<>> /\ run_hi[1].min_a > run_lo[1].min_a

InstRaised == run_hi # <<>> /\ run_hi[1].min_i > run_lo[1].min_i

\* keep_insts before the cap, for the thresholds of a run
KeepBeforeCap(run) ==
    KeepByMin(InstTotalPubs(FilterAuthors(author_inst, run.min_a)), run.min_i)

\* the cap of a run cuts between institutions with equal totals
TieAtCap(run) ==
    Cardinality(TopKChoices(KeepBeforeCap(run),
                            InstTotalPubs(FilterAuthors(author_inst, run.min_a)),
                            run.cap)) > 1

\* C3 as claimed: raising minPapersPerAuthor, everything else fixed and a cap
\* possibly set, increases neither the author records nor the institutions.
C3_AuthorThresholdMonotone ==
    AuthorRaised =>
        /\ run_hi[1].authors <= run_lo[1].authors
        /\ run_hi[1].institutions <= run_lo[1].institutions

\* C3 as amended: raising minPapersPerAuthor never increases the number of
\* institutions, and never increases the number of author records when no
\* cap is set or the cap is not exceeded at the lower threshold.
C3_AuthorThresholdMonotoneUnlessCapped ==
    AuthorRaised =>
        /\ run_hi[1].institutions <= run_lo[1].institutions
        /\ (\/ run_lo[1].cap = NoCap
            \/ Cardinality(KeepBeforeCap(run_lo[1])) <= run_lo[1].cap[1])
           => run_hi[1].authors <= run_lo[1].authors

\* a cap is set and not exceeded, and the raised author threshold removed
\* entries of both institutions
C3_Witness ==
    /\ AuthorRaised
    /\ run_lo[1].cap # NoCap
    /\ Cardinality(KeepBeforeCap(run_lo[1])) <= run_lo[1].cap[1]
    /\ run_lo[1].institutions = 2
    /\ run_hi[1].institutions = 2
    /\ 0 < run_hi[1].authors
    /\ run_hi[1].authors < run_lo[1].authors

\* C4 as claimed: raising minPapersPerInstitution, everything else fixed, a
\* cap possibly set and institutions possibly tied, increases neither the
\* author records nor the institutions.
C4_InstThresholdMonotone ==
    InstRaised =>
        /\ run_hi[1].authors <= run_lo[1].authors
        /\ run_hi[1].institutions <= run_lo[1].institutions

\* C4 as amended: raising minPapersPerInstitution never increases the number
\* of institutions, and never increases the number of author records unless,
\* at the raised threshold, the cap cuts between institutions with equal
\* totals.
C4_InstThresholdMonotoneUnlessTied ==
    InstRaised =>
        /\ run_hi[1].institutions <= run_lo[1].institutions
        /\ ~TieAtCap(run_hi[1]) => run_hi[1].authors <= run_lo[1].authors

\* a cap of one institution, two institutions with different totals above
\* the raised threshold, and the same author records before and after
C4_Witness ==
    /\ InstRaised
    /\ run_lo[1].cap = <<1>>
    /\ Cardinality(KeepBeforeCap(run_hi[1])) = 2
    /\ ~TieAtCap(run_hi[1])
    /\ run_hi[1].authors = run_lo[1].authors
    /\ run_hi[1].authors > 0

\* C11: a venue whose source_ids is non-empty is harvested from exactly those
\* source ids, in their order, and is not handed to the DBLP bridge, whatever
\* its other fields are.
C11_SourceIdsFirst ==
    pc \in {"iter", "dblp"} /\ vcfg.source_ids # <<>> =>
        /\ pc = "iter"
        /\ source_ids = vcfg.source_ids

\* C12: a work without a publication year in OpenAlex is dropped on both
\* paths: the attach loop never runs for it.
C12_NoYearDropped ==
    \A w \in Works : w.id # "" /\ ~w.hasYear => aggCount[w.id] = 0

\* the runs made so far
Runs == {r[1] : r \in {run_lo, run_hi} \ {<<>>}}

\* C13: an entry is in the final dataset exactly when its publication count
\* is at least minPapersPerAuthor and its institution is in the final
\* dataset.
C13_EntryKeptIff ==
    \A r \in Runs : \A k \in DOMAIN author_inst :
        k \in r.entries <=>
            /\ Len(author_inst[k].publications) >= r.min_a
            /\ k[2] \in r.kept

\* with a threshold of 3, an entry with exactly 2 publications is absent
\* though its institution is kept, and one with exactly 3 is present
C13_Witness ==
    /\ run_hi # <<>>
    /\ run_hi[1].min_a = 3
    /\ \E k \in DOMAIN author_inst :
         /\ Len(author_inst[k].publications) = 2
         /\ k[2] \in run_hi[1].kept
         /\ k \notin run_hi[1].entries
    /\ \E k \in DOMAIN author_inst :
         /\ Len(author_inst[k].publications) = 3
         /\ k \in run_hi[1].entries

\* institution totals after the author threshold of a run
TotalsOf(run) == InstTotalPubs(FilterAuthors(author_inst, run.min_a))

\* C14: when a cap K is set and more than K institutions pass the thresholds,
\* exactly K are kept and no kept institution has a smaller total than a
\* dropped one; when at most K pass, the cap drops none.
C14_TopKByTotal ==
    \A r \in Runs : r.cap # NoCap =>
        LET passed == KeepBeforeCap(r)
            tot == TotalsOf(r)
        IN  IF Cardinality(passed) > r.cap[1]
            THEN /\ r.kept \subseteq passed
                 /\ Cardinality(r.kept) = r.cap[1]
                 /\ \A i \in r.kept, j \in passed \ r.kept : tot[i] >= tot[j]
            ELSE r.kept = passed

\* a cap of 1, two institutions with totals 10 and 5 passing the thresholds,
\* and the one with 10 kept
C14_Witness ==
    /\ run_lo # <<>>
    /\ run_lo[1].cap = <<1>>
    /\ KeepBeforeCap(run_lo[1]) = {"i1", "i2"}
    /\ TotalsOf(run_lo[1])["i1"] = 5
    /\ TotalsOf(run_lo[1])["i2"] = 10
    /\ run_lo[1].kept = {"i2"}

\* the summed publication count of the entries of institution i that meet
\* the author threshold of a run
EntrySum(run, i) ==
    LET ks == {k \in DOMAIN author_inst :
                 k[2] = i /\ Len(author_inst[k].publications) >= run.min_a}
    IN  SumOver([k \in ks |-> Len(author_inst[k].publications)], ks)

\* C15: with no cap in the way, an institution registered during aggregation
\* is kept exactly when the summed count of its entries that met the author
\* threshold is at least minPapersPerInstitution; in particular a threshold
\* of 0 drops none.
C15_InstKeptIff ==
    \A r \in Runs : r.cap = NoCap =>
        \A i \in DOMAIN institutions : i \in r.kept <=> EntrySum(r, i) >= r.min_i

\* ------------------------------------------------------------------------
\* C16: an authorship with no author id or with no institutions leaves the
\* institution map and the author/institution map as they were, and the
\* aggregation of a work on which no authorship lists an institution changes
\* neither map
\* ------------------------------------------------------------------------
AuthorshipsOf(ws) == UNION {{w.authorships[n] : n \in DOMAIN w.authorships} : w \in ws}

BareAuthorships ==
    {a \in AuthorshipsOf(Works) : a.author_id = "" \/ a.institutions = <<>>}

NoInstWorks ==
    {w \in Works : w.id # "" /\ \A a \in AuthorshipsOf({w}) : a.institutions = <<>>}

SomePub == [year |-> MinYear, venue |-> "PRX", title |-> "Quantum A"]

C16_BareAuthorshipFrame ==
    [][ /\ \A a \in BareAuthorships, path \in {"direct", "dblp"} :
             AttachAuthorships(Agg, <<a>>, SomePub, path) = Agg
        /\ \A w \in NoInstWorks :
             aggCount'[w.id] > aggCount[w.id] =>
                 UNCHANGED <<institutions, author_inst>> ]_vars

\* a work without institutions was aggregated by a venue that does not
\* require a keyword match, and both maps are still empty
C16_Witness ==
    /\ pc = "iter"
    /\ ~vcfg.require_keywords
    /\ \E w \in NoInstWorks : aggCount[w.id] = 1
    /\ author_inst = EmptyFn
    /\ institutions = EmptyFn

\* ------------------------------------------------------------------------
\* C17: a work that reaches a loop body with its id already in seen_work_ids
\* leaves seen_work_ids, the institution map, the author/institution map and
\* with it every publication list unchanged, so a stream of such works
\* changes none of them
\* ------------------------------------------------------------------------
C17_SeenWorkFrame ==
    [][ \A id \in WorkIds :
          id \in seen_work_ids /\ arrivals'[id] > arrivals[id] =>
              UNCHANGED <<seen_work_ids, institutions, author_inst, aggCount>> ]_vars

\* every work of a venue's stream arrived a second time after the aggregate
\* was built from it
C17_Witness ==
    /\ \E id \in WorkIds :
         /\ arrivals[id] = 2
         /\ aggCount[id] = 1
         /\ \A other \in WorkIds \ {id} : arrivals[other] = 0
    /\ author_inst # EmptyFn

\* ------------------------------------------------------------------------
\* C18: a page request rejected as out of range (409), on any page of the
\* range including the first, never leaves the generator with an exception
\* ------------------------------------------------------------------------
C18_OutOfRangeNeverRaises == ~(it_pc = "raised" /\ it_err = OutOfRange)

\* ------------------------------------------------------------------------
\* C19: a venue with none of dblp_venue / source_ids / search, or whose
\* source search fails or matches no source, is skipped: the aggregate and
\* the output venues list stay as they were and the loop over the venues
\* goes on
\* ------------------------------------------------------------------------
NoSourceMatches(search, results) ==
    \A n \in DOMAIN results : ~AllTokensIn(search, Lower(results[n].display_name))

\* the current venue cannot be resolved to a source
Unresolvable ==
    /\ vcfg.dblp_venue = ""
    /\ vcfg.source_ids = <<>>
    /\ \/ vcfg.search = ""
       \/ /\ lastSources # <<>>
          /\ \/ lastSources[1].kind = "error"
             \/ NoSourceMatches(vcfg.search, lastSources[1].results)

C19_UnresolvableVenueSkipped ==
    [][ vi' = vi + 1 /\ Unresolvable' =>
          /\ UNCHANGED <<institutions, author_inst, seen_work_ids, venues_out, aggCount>>
          /\ pc' = "venue" ]_vars

\* after an aggregated venue, a venue whose source search failed was skipped
\* and the loop over the venues is ready for the next one
C19_Witness ==
    /\ pc = "venue"
    /\ vi = 2
    /\ Unresolvable
    /\ lastSources # <<>>
    /\ lastSources[1].kind = "error"
    /\ Len(venues_out) = 1
    /\ author_inst # EmptyFn

\* ------------------------------------------------------------------------
\* C20: wherever the process dies, before, during or after
\* save_openalex_cache, the cache file holds a complete text: the one it
\* held before, or the one of the cache being saved
\* ------------------------------------------------------------------------
CompleteFile(file) == file = NoFile \/ file[1].upto = NumMembers

C20_CacheFileNeverTorn ==
    /\ CompleteFile(diskCache)
    /\ pc \in {"venue", "iter", "dblp", "aborted", "built", "saving"} =>
           diskCache \in InitialFiles /\ load_openalex_cache(diskCache) \in InitialCaches
    /\ diskCache \notin InitialFiles => diskCache = Whole(cache)

\* the process died while the new text was half written: the cache file
\* still holds what it held before the run, which is not the new cache
C20_Witness ==
    /\ pc = "crashed"
    /\ tmpFile # NoFile
    /\ tmpFile[1].upto = 1
    /\ tmpFile[1].data = cache
    /\ diskCache # NoFile
    /\ diskCache # Whole(cache)

\* ------------------------------------------------------------------------
\* C21: across DOI lookups and title searches the resolution cache only
\* grows: no key leaves the doi or the title mapping and the work stored
\* under a key is never replaced
\* ------------------------------------------------------------------------
Extends(new, old) ==
    \A k \in DOMAIN old : k \in DOMAIN new /\ new[k] = old[k]

C21_CacheOnlyGrows ==
    [][ Extends(cache'.doi, cache.doi) /\ Extends(cache'.title, cache.title) ]_vars

\* both mappings hold a work, and the cache loaded from the file is still
\* part of it
C21_Witness ==
    /\ nResolved >= 2
    /\ Cardinality(DOMAIN cache.doi) = 2
    /\ cache.title # EmptyFn
    /\ \E c \in InitialCaches \ {EmptyCache} : Extends(cache.doi, c.doi)

\* ------------------------------------------------------------------------
\* C22: the streams of two venues can be interleaved in any order: taking
\* the next work of one venue before or after the next work of another venue
\* ends in the same institution map and the same author/institution map
\* (publication lists compared without regard to their order), from every
\* state in which a venue's stream is being read
\* ------------------------------------------------------------------------
\* one atomic step of the loop body at lines 1235-1286
AggregatorStep(st, work, v) ==
    LET r == ProcessDirect(st.seen, st.agg, work, v)
    IN  [seen |-> r.seen, agg |-> r.agg]

PubSet(entry) == {entry.publications[n] : n \in DOMAIN entry.publications}

SameMaps(a, b) ==
    /\ a.institutions = b.institutions
    /\ DOMAIN a.author_inst = DOMAIN b.author_inst
    /\ \A k \in DOMAIN a.author_inst :
         PubSet(a.author_inst[k]) = PubSet(b.author_inst[k])

\* venues harvested through iter_works_for_source
DirectVenues == {v \in VenueChoices : v.dblp_venue = ""}

C23_PrefilterLosesNothing ==
    pc = "iter" /\ vcfg.require_keywords =>
        \A w \in Works :
            w.id \notin seen_work_ids /\ w.hasYear /\ is_quantum_paper(w, TRUE) =>
                w \in SourceWorks(vcfg.require_keywords)

\* ------------------------------------------------------------------------
\* C24: the emitted institutions carry the keys inst0 .. inst(n-1) in
\* ascending order of name, one key per surviving institution, and every
\* author record carries the key of its own institution and its publications
\* in ascending (year, venue, title) order
\* ------------------------------------------------------------------------
KeyLess(p, q) ==
    \/ p.year < q.year
    \/ p.year = q.year /\ StrRank(p.venue) < StrRank(q.venue)
    \/ p.year = q.year /\ p.venue = q.venue /\ StrRank(p.title) < StrRank(q.title)

C24_EmitterKeysAndOrder ==
    dataset # <<>> =>
        LET d == dataset[1]
            n == Len(d.institutions)
        IN  /\ \A a, b \in 1..n :
                 a < b => StrRank(d.institutions[a].name) <= StrRank(d.institutions[b].name)
            /\ \A k \in DOMAIN d.authors :
                 /\ d.authors[k].institution \in 0..(n - 1)
                 /\ d.institutions[d.authors[k].institution + 1] = institutions[k[2]]
                 /\ \A a, b \in DOMAIN d.authors[k].publications :
                      a < b => ~KeyLess(d.authors[k].publications[b],
                                        d.authors[k].publications[a])
                 /\ Len(d.authors[k].publications) = Len(author_inst[k].publications)
                 /\ PubSet(d.authors[k]) = PubSet(author_inst[k])
            /\ \A k1, k2 \in DOMAIN d.authors :
                 k1[2] # k2[2] <=> d.authors[k1].institution # d.authors[k2].institution

\* two institutions were emitted, and an entry whose publications were
\* aggregated out of order
C24_Witness ==
    /\ dataset # <<>>
    /\ Len(dataset[1].institutions) = 2
    /\ \E k \in DOMAIN dataset[1].authors :
         /\ Len(author_inst[k].publications) = 2
         /\ dataset[1].authors[k].publications # author_inst[k].publications

\* ------------------------------------------------------------------------
\* C25: region_from_country_code gives every input (a known code in any
\* letter case, an unknown code, an empty or absent value) one of the
\* defined regions or "Other", and every registered institution carries such
\* a region
\* ------------------------------------------------------------------------
\* the values of COUNTRY_TO_REGION, and the default
Regions ==
    {"North America", "South America", "Europe", "Asia", "Oceania", "Africa", "Other"}

\* known codes in upper, lower and mixed case, unknown codes, and "" for an
\* empty or absent value
CountryCodes == {"US", "us", "Us", "DE", "de", "XX", "xx", ""}

C25_RegionTotal ==
    /\ \A code \in CountryCodes : region_from_country_code(code) \in Regions
    /\ \A code \in {"XX", "xx", ""} : region_from_country_code(code) = "Other"
    /\ \A i \in DOMAIN institutions : institutions[i].region \in Regions

\* institutions were registered from a lower-case and from an upper-case code
C25_Witness ==
    /\ \E i \in DOMAIN institutions : institutions[i].region = "North America"
    /\ \E i \in DOMAIN institutions : institutions[i].region = "Europe"

\* ------------------------------------------------------------------------
\* C26: with max_pages = P one call of iter_works_for_source yields the
\* records of at most P result pages, that is at most P * per_page works,
\* also when the range is bisected
\* ------------------------------------------------------------------------
YieldedTotal == SumOver(yielded, Years)

C26_PageCapBoundsYield ==
    it_args.max_pages # NoPageCap /\ service.consistent =>
        YieldedTotal <= it_args.max_pages[1] * PerPage

\* ------------------------------------------------------------------------
\* C27: for a DBLP record that passes the prefilter, the title search is
\* attempted exactly when no DOI can be extracted or the DOI lookup gave no
\* work (not found, HTTP error, transport error or an empty body); a record
\* is skipped exactly when neither lookup gave a work, and the next record
\* can then be resolved
\* ------------------------------------------------------------------------
PassesPrefilter(info, require_keywords) ==
    ~require_keywords \/ _title_looks_quantum(info.title)

C27_TitleSearchIffNoDoiWork ==
    \A info \in DblpInfos, kw \in BOOLEAN :
        PassesPrefilter(info, kw) =>
            \A ans \in DoiAnswers \X TitleAnswers :
                LET res == ResolveDblp(cache, info, kw, ans[1], ans[2])
                    doi == _extract_doi_from_dblp_info(info)
                IN  /\ res.doi.called <=> doi # ""
                    /\ res.title.called <=> (doi = "" \/ res.doi.work = <<>>)
                    /\ res.skip <=> (res.doi.work = <<>> /\ res.title.work = <<>>)
                    /\ ~res.skip => res.work # <<>>

\* the DOI endpoint was asked and gave no work, the title search that
\* followed gave one, and a further record can be resolved
C27_Witness ==
    /\ lastDoi.called
    /\ lastDoi.net
    /\ lastDoi.work = <<>>
    /\ lastTitle.called
    /\ lastTitle.work # <<>>
    /\ nResolved < MaxResolve

\* ------------------------------------------------------------------------
\* C28: a work id is in seen_work_ids from its first arrival at a loop body,
\* whether or not the year check and the relevance filter let it through,
\* so a work that arrived and was not aggregated is never aggregated on a
\* later arrival
\* ------------------------------------------------------------------------
ArrivedIsSeen == \A id \in WorkIds : arrivals[id] > 0 => id \in seen_work_ids

RejectedStaysOut ==
    \A id \in WorkIds :
        arrivals[id] > 0 /\ aggCount[id] = 0 => aggCount'[id] = 0

C28_FirstEncounterDecides == []ArrivedIsSeen /\ [][RejectedStaysOut]_vars

\* a work without a year was dropped by the first venue that yielded it and
\* was yielded again by the second venue
C28_Witness ==
    /\ vi = 2
    /\ \E id \in WorkIds :
         /\ ~WorkById(id).hasYear
         /\ arrivals[id] = 2
         /\ aggCount[id] = 0

\* ------------------------------------------------------------------------
\* C29: in the final dataset every author record's institution key is a key
\* of the institutions mapping, and every institution of the mapping is the
\* institution of at least one author record
\* ------------------------------------------------------------------------
C29_KeysClosed ==
    dataset # <<>> =>
        LET d == dataset[1]
        IN  /\ \A k \in DOMAIN d.authors :
                 d.authors[k].institution + 1 \in DOMAIN d.institutions
            /\ \A n \in DOMAIN d.institutions :
                 \E k \in DOMAIN d.authors : d.authors[k].institution + 1 = n

\* a dataset that lost an institution and some entries to the thresholds or
\* the cap and kept an institution with its authors
C29_Witness ==
    /\ dataset # <<>>
    /\ Len(dataset[1].institutions) = 1
    /\ Cardinality(DOMAIN institutions) = 2
    /\ DOMAIN dataset[1].authors # DOMAIN author_inst
    /\ DOMAIN dataset[1].authors # {}

\* ------------------------------------------------------------------------
\* C30: in build_institution_dataset.build_dataset every institution that
\* yields authors has a key of its own, so the institutions mapping has one
\* entry per such institution, and the key of every author record maps to
\* the institution under which the author was harvested
\* ------------------------------------------------------------------------
C30_KeysDistinctAndOwn ==
    /\ Cardinality(DOMAIN bi_institutions) = inst_count
    /\ \A e \in authors_entries :
         /\ e.institution \in DOMAIN bi_institutions
         /\ bi_institutions[e.institution].name = Strip(institutions_list[e.at])

====
